---------------------------- MODULE Spec2Model ----------------------------
(***************************************************************************)
(* A model of text_to_audio_app.py: the PDF / web-page text extraction,    *)
(* the per-page cleaning, the Play / Stop session logic, the audio         *)
(* generation through the shared temporary file and the sequential player. *)
(*                                                                         *)
(* Text is a sequence of one-character strings, so that splitting,         *)
(* stripping, joining and the regular expression are computed character    *)
(* by character as Python computes them.                                   *)
(***************************************************************************)
EXTENDS Integers, Sequences, FiniteSets, TLC

\* ------------------------------------------------------------------ bounds
\* Raw page texts are concatenations of at most MaxChunks chunks.
MaxChunks == 4
\* A multi-page PDF has at most MaxPdfPages pages.
MaxPdfPages == 3

\* Web-page texts are concatenations of at most MaxWebChunks chunks.
MaxWebChunks == 5
\* A document handed to the pacing estimate has at most MaxSegments segments.
MaxSegments == 3
\* Listening durations range over 1..MaxHalves half-minutes.
MaxHalves == 8
\* A document loaded into the session has at most MaxPages pages.
MaxPages == 3

VARIABLES
    \* extract_main_text_from_pdf
    pdf,            \* pdf.pages: what page.extract_text() does on each page
    pdf_pages,      \* the list "pages" built by the loop
    lines,          \* "lines" of the last page processed, after the filter
    joined,         \* "clean_text" of the last page, after the join
    extract_result, \* "running", "returned" (pages) or "error" (None)
    \* the "Paste URL" branch of main
    web,            \* the fetched page: [ok, text] (text = get_text output)
    url_clean,      \* the return value of extract_text_from_url
    url_pages,      \* "pages" of the branch
    url_state,      \* "input", "shown" (controls rendered) or "nothing"
    \* the pacing estimate
    segments,       \* word count of each cleaned segment
    listening_time, \* the option chosen in the selectbox
    estimate,       \* the estimated segment count
    \* one browser session: the widgets and st.session_state
    total_pages,    \* len(pages) of the loaded document, 0: no controls
    slider,         \* the page range slider's value <<lo, hi>>, 1-based
    shown,          \* the button the last run rendered: "play", "stop", "none"
    is_playing,     \* st.session_state.is_playing
    current_page,   \* st.session_state.current_page
    audio_files,    \* st.session_state.audio_files
    \* the script run of the session
    run,            \* "idle", "play_audio" or "autoplay"
    start_page,     \* play_audio's arguments
    end_page,
    idx,            \* play_audio's loop variable i
    synth_ok,       \* pages of this play_audio call that gTTS synthesized
    \* generate_audio, per caller: 1 is the session above, 2 another session
    gen_pc,         \* "idle", "save", "open", "remove" or "returned"
    gen_buf,        \* what f.read() gave
    gen_synth,      \* whether the call's own synthesis succeeded
    gen_ret,        \* the call's return value
    temp_file,      \* the content of temp_audio.mp3, or NoFile
    \* the audio element rendered by autoplay_audio
    audioFiles,     \* the script's audioFiles array
    currentIndex,
    player,         \* "none", "playing" or "removed"
    played          \* the sources the element has played, in order

extractVars == <<pdf, pdf_pages, lines, joined, extract_result>>
urlVars == <<web, url_clean, url_pages, url_state>>
paceVars == <<segments, listening_time, estimate>>
widgetVars == <<total_pages, slider, shown, is_playing, current_page, audio_files>>
runVars == <<run, start_page, end_page, idx, synth_ok>>
genVars == <<gen_pc, gen_buf, gen_synth, gen_ret, temp_file>>
playerVars == <<audioFiles, currentIndex, player, played>>
sessionVars == <<widgetVars, runVars, genVars, playerVars>>
textVars == <<extractVars, urlVars, paceVars>>
vars == <<textVars, sessionVars>>

\* ------------------------------------------------------------- characters
NL == "\n"
SP == " "

\* Python's str.strip() / str.split() whitespace, restricted to the alphabet.
Whitespace == {" ", "\n", "\t"}

UpperToLower ==
    [c \in {"R", "E", "F", "N", "C", "S", "I"} |->
        CASE c = "R" -> "r" [] c = "E" -> "e" [] c = "F" -> "f"
          [] c = "N" -> "n" [] c = "C" -> "c" [] c = "S" -> "s"
          [] c = "I" -> "i"]

\* Case folding done by re.IGNORECASE on the characters of the alphabet.
Lower(c) == IF c \in DOMAIN UpperToLower THEN UpperToLower[c] ELSE c

\* \w of the re module: letters, digits and underscore (the alphabet holds
\* letters, ".", " " and "\n" only).
IsWordChar(c) == c \notin (Whitespace \cup {"."})

\* -------------------------------------------------------- string helpers
RECURSIVE Concat(_)
Concat(ss) == IF ss = <<>> THEN <<>> ELSE Head(ss) \o Concat(Tail(ss))

\* sep.join(list)
RECURSIVE Join(_, _)
Join(list, sep) ==
    IF list = <<>> THEN <<>>
    ELSE IF Len(list) = 1 THEN Head(list)
    ELSE Head(list) \o sep \o Join(Tail(list), sep)

RECURSIVE LStrip(_)
LStrip(s) ==
    IF s # <<>> /\ Head(s) \in Whitespace THEN LStrip(Tail(s)) ELSE s

RECURSIVE RStrip(_)
RStrip(s) ==
    IF s # <<>> /\ s[Len(s)] \in Whitespace
    THEN RStrip(SubSeq(s, 1, Len(s) - 1)) ELSE s

\* str.strip()
Strip(s) == RStrip(LStrip(s))

\* ----------------------------------------------- the "References" pattern
References == <<"R", "e", "f", "e", "r", "e", "n", "c", "e", "s">>

\* \b at the gap before position p (1-based) of s: exactly one side is a
\* word character.
WordBoundary(s, p) ==
    LET before == p > 1 /\ p - 1 <= Len(s) /\ IsWordChar(s[p - 1])
        after  == p >= 1 /\ p <= Len(s) /\ IsWordChar(s[p])
    IN  before # after

\* The pattern without re.IGNORECASE.
ReferencesMatchAt_CaseSensitive(s, p) ==
    /\ p + Len(References) - 1 <= Len(s)
    /\ \A k \in 1..Len(References) : s[p + k - 1] = References[k]
    /\ WordBoundary(s, p)
    /\ WordBoundary(s, p + Len(References))

\* r"\bReferences\b" with flags=re.IGNORECASE matching at position p.
ReferencesMatchAt(s, p) ==
    /\ p + Len(References) - 1 <= Len(s)
    /\ \A k \in 1..Len(References) : Lower(s[p + k - 1]) = Lower(References[k])
    /\ WordBoundary(s, p)
    /\ WordBoundary(s, p + Len(References))

\* re.split(pattern, s)[0]: the scan for the leftmost match; the text
\* before it, or all of s when nothing matches.
RECURSIVE SplitReferencesFirst(_, _)
SplitReferencesFirst(s, p) ==
    IF p > Len(s) THEN s
    ELSE IF ReferencesMatchAt(s, p) THEN SubSeq(s, 1, p - 1)
    ELSE SplitReferencesFirst(s, p + 1)

\* ------------------------------------------------------ the line filter
\* lines = [line for line in lines if len(line) > 5]
FilterLines(ls) == SelectSeq(ls, LAMBDA l : Len(l) > 5)


\* str.split(sep) for a separator of any length: leftmost, non-overlapping.
RECURSIVE SplitStr(_, _, _)
SplitStr(s, sep, cur) ==
    IF s = <<>> THEN <<cur>>
    ELSE IF Len(s) >= Len(sep) /\ SubSeq(s, 1, Len(sep)) = sep
    THEN <<cur>> \o SplitStr(SubSeq(s, Len(sep) + 1, Len(s)), sep, <<>>)
    ELSE SplitStr(Tail(s), sep, Append(cur, Head(s)))

\* All concatenations of at most n chunks.
Texts(chunks, n) ==
    { Concat(cs) : cs \in UNION { [1..k -> chunks] : k \in 0..n } }

\* ============================================ extract_main_text_from_pdf
Intro == <<"I", "n", "t", "r", "o", ".">>
REFERENCES == <<"R", "E", "F", "E", "R", "E", "N", "C", "E", "S">>
PdfChunks == { <<NL>>, <<SP>>, References, REFERENCES, Intro, <<"a", "b">>, <<"x">> }

\* What page.extract_text() does on one page.
TextPage(t) == [kind |-> "text", text |-> t]
NonePage == [kind |-> "none", text |-> <<>>]      \* returns None
NonStrPage == [kind |-> "nonstr", text |-> <<>>]  \* returns a non-string
RaisePage == [kind |-> "raise", text |-> <<>>]    \* raises

PageResults ==
    { NonePage, NonStrPage, RaisePage,
      TextPage(Intro \o <<SP>> \o Intro),
      TextPage(Intro \o <<NL>> \o <<"a", "b">> \o <<NL>> \o References \o <<SP>> \o Intro) }

SinglePageDocs == { <<TextPage(t)>> : t \in Texts(PdfChunks, MaxChunks) }
MultiPageDocs == UNION { [1..n -> PageResults] : n \in 1..MaxPdfPages }

\* text = page.extract_text() or ""
RawText(r) == IF r.kind = "text" THEN r.text ELSE <<>>

\* The page's cleaning: split, filter, join, cut at "References", strip.
CleanJoined(j) == Strip(SplitReferencesFirst(j, 1))

ExtractInit ==
    /\ pdf \in SinglePageDocs \cup MultiPageDocs
    /\ pdf_pages = <<>>
    /\ lines = <<>>
    /\ joined = <<>>
    /\ extract_result = "running"

ExtractIdle ==
    /\ pdf = <<>>
    /\ pdf_pages = <<>>
    /\ lines = <<>>
    /\ joined = <<>>
    /\ extract_result = "returned"

\* One iteration of "for page in pdf.pages" that completes.
ExtractPage ==
    /\ extract_result = "running"
    /\ Len(pdf_pages) < Len(pdf)
    /\ LET r == pdf[Len(pdf_pages) + 1]
       IN  /\ r.kind \in {"text", "none"}
           /\ lines' = FilterLines(SplitStr(RawText(r), <<NL>>, <<>>))
           /\ joined' = Join(lines', <<SP>>)
           /\ pdf_pages' = Append(pdf_pages, CleanJoined(joined'))
    /\ UNCHANGED <<pdf, extract_result, urlVars, paceVars, sessionVars>>

\* An iteration that raises (extract_text raises, or text.split on a
\* non-string): the except clause of the function reports and returns None.
ExtractPageRaises ==
    /\ extract_result = "running"
    /\ Len(pdf_pages) < Len(pdf)
    /\ pdf[Len(pdf_pages) + 1].kind \in {"raise", "nonstr"}
    /\ extract_result' = "error"
    /\ UNCHANGED <<pdf, pdf_pages, lines, joined, urlVars, paceVars, sessionVars>>

\* return pages
ExtractReturn ==
    /\ extract_result = "running"
    /\ Len(pdf_pages) = Len(pdf)
    /\ extract_result' = "returned"
    /\ UNCHANGED <<pdf, pdf_pages, lines, joined, urlVars, paceVars, sessionVars>>

\* ================================================== the "Paste URL" branch
WebChunks == { <<"a">>, <<"b", "c">>, <<SP>>, <<NL>> }

\* lines = [line.strip() for line in text.split("\n") if line.strip()]
StrippedLines(text) ==
    LET ls == SplitStr(text, <<NL>>, <<>>)
        stripped == [i \in 1..Len(ls) |-> Strip(ls[i])]
    IN  SelectSeq(stripped, LAMBDA l : l # <<>>)

\* The text extract_text_from_url returns for a page with main content.
ExtractTextFromUrl(text) == Join(StrippedLines(text), <<NL>>)

\* pages = text.split("\n\n")
SplitParagraphs(text) == SplitStr(text, <<NL, NL>>, <<>>)

UrlInit ==
    /\ web \in { [ok |-> TRUE, text |-> t] : t \in Texts(WebChunks, MaxWebChunks) }
               \cup { [ok |-> FALSE, text |-> <<>>] }
    /\ url_clean = <<>>
    /\ url_pages = <<>>
    /\ url_state = "input"

UrlIdle ==
    /\ web = [ok |-> FALSE, text |-> <<>>]
    /\ url_clean = <<>>
    /\ url_pages = <<>>
    /\ url_state = "nothing"

\* The URL is pasted and the page has text: the controls are rendered.
PasteURL ==
    /\ url_state = "input"
    /\ web.ok
    /\ ExtractTextFromUrl(web.text) # <<>>
    /\ url_clean' = ExtractTextFromUrl(web.text)
    /\ url_pages' = SplitParagraphs(url_clean')
    /\ url_state' = "shown"
    /\ UNCHANGED <<web, extractVars, paceVars, sessionVars>>

\* The extraction returns None or "": "if text" fails, nothing is rendered.
PasteURLNoText ==
    /\ url_state = "input"
    /\ ~web.ok \/ ExtractTextFromUrl(web.text) = <<>>
    /\ url_clean' = <<>>
    /\ url_pages' = <<>>
    /\ url_state' = "nothing"
    /\ UNCHANGED <<web, extractVars, paceVars, sessionVars>>

\* ====================================================== the pacing estimate
AVERAGE_WORDS_PER_MINUTE == 150

ListeningOptions == {"30 minutes", "1 hour", "2 hours", "More than 2 hours"}

\* listening_minutes, in halves: {"30 minutes": 0.5, "1 hour": 1, ...}
ListeningHalves(t) ==
    CASE t = "30 minutes" -> 1
      [] t = "1 hour" -> 2
      [] t = "2 hours" -> 4
      [] t = "More than 2 hours" -> 6

RECURSIVE Sum(_)
Sum(ws) == IF ws = <<>> THEN 0 ELSE Head(ws) + Sum(Tail(ws))

Clamp(x, lo, hi) == IF x < lo THEN lo ELSE IF x > hi THEN hi ELSE x

\* The quotient taken the wrong way round.
EstimateSegmentCount_Inverted(ws, halves, wpm) ==
    LET n == Len(ws)
        totalWords == Sum(ws)
    IN  IF totalWords = 0 THEN n
        ELSE Clamp((2 * totalWords) \div (wpm * halves * n), 0, n)

\* estimateSegmentCount: floor(wpm * targetMinutes / meanWordsPerSegment),
\* clamped to [0, len(segments)]; all segments when the mean is 0.  The
\* duration is given in half-minutes, the segments by their word counts.
EstimateSegmentCount(ws, halves, wpm) ==
    LET n == Len(ws)
        totalWords == Sum(ws)
    IN  IF totalWords = 0 THEN n
        ELSE Clamp((wpm * halves * n) \div (2 * totalWords), 0, n)

WordCounts == {0, 40, 90, 200}

PaceInit ==
    /\ segments \in UNION { [1..n -> WordCounts] : n \in 1..MaxSegments }
    /\ listening_time = "1 hour"
    /\ estimate = EstimateSegmentCount(segments, ListeningHalves("1 hour"),
                                       AVERAGE_WORDS_PER_MINUTE)

PaceIdle ==
    /\ segments = <<0>>
    /\ listening_time = "1 hour"
    /\ estimate = 1

\* The user picks a listening time; the estimate is recomputed.
SelectListeningTime ==
    \E t \in ListeningOptions :
        /\ listening_time' = t
        /\ estimate' = EstimateSegmentCount(segments, ListeningHalves(t),
                                            AVERAGE_WORDS_PER_MINUTE)
        /\ UNCHANGED <<segments, extractVars, urlVars, sessionVars>>

\* ============================================================ the session
Callers == {1, 2}
\* Values are records of one shape, so that any two can be compared.
Value(k, c, i) == [kind |-> k, owner |-> c, page |-> i]
NoFile == Value("nofile", 0, 0)
None == Value("None", 0, 0)
Undefined == Value("undefined", 0, 0)

\* The audio gTTS synthesizes from a text: page i of the session's document
\* (caller 1), or the other session's text (caller 2, page 0).
Audio(c, i) == Value("audio", c, i)

\* The range with end_page left 1-based.
SliderToRange_EndNotDecremented(lo, hi) == <<lo - 1, hi>>

\* start_page -= 1; end_page -= 1
SliderToRange(lo, hi) == <<lo - 1, hi - 1>>

\* A run that always takes the Play branch.
ShowsStopButton_Never(playing) == FALSE

\* if st.session_state.is_playing: the Stop branch, else the Play branch.
ShowsStopButton(playing) == playing

ButtonFor(n, playing) ==
    IF n = 0 THEN "none" ELSE IF ShowsStopButton(playing) THEN "stop" ELSE "play"

\* Any rerun of the script renders the page without the audio component.
NoPlayer ==
    /\ audioFiles' = <<>>
    /\ currentIndex' = 0
    /\ player' = "none"
    /\ played' = <<>>

SessionInit ==
    /\ total_pages = 0
    /\ slider = <<0, 0>>
    /\ shown = "none"
    /\ is_playing = FALSE
    /\ current_page = 0
    /\ audio_files = <<>>
    /\ run = "idle"
    /\ start_page = 0
    /\ end_page = 0
    /\ idx = 0
    /\ synth_ok = {}
    /\ gen_pc = [c \in Callers |-> "idle"]
    /\ gen_buf = [c \in Callers |-> None]
    /\ gen_synth = [c \in Callers |-> FALSE]
    /\ gen_ret = [c \in Callers |-> None]
    /\ temp_file = NoFile
    /\ audioFiles = <<>>
    /\ currentIndex = 0
    /\ player = "none"
    /\ played = <<>>

\* A document of n pages is extracted (n = 0: "if pages" fails); the slider
\* is created with value=(1, total_pages).
LoadDocument ==
    \E n \in 0..MaxPages :
        /\ run = "idle"
        /\ total_pages' = n
        /\ slider' = IF n = 0 THEN <<0, 0>> ELSE <<1, n>>
        /\ shown' = ButtonFor(n, is_playing)
        /\ NoPlayer
        /\ UNCHANGED <<is_playing, current_page, audio_files, runVars, genVars, textVars>>

\* The user moves the slider: min_value=1, max_value=total_pages.
MoveSlider ==
    \E lo \in 1..MaxPages, hi \in 1..MaxPages :
        /\ run = "idle"
        /\ total_pages >= 1
        /\ lo <= hi /\ hi <= total_pages
        /\ slider' = <<lo, hi>>
        /\ shown' = ButtonFor(total_pages, is_playing)
        /\ NoPlayer
        /\ UNCHANGED <<total_pages, is_playing, current_page, audio_files, runVars,
                       genVars, textVars>>

\* "Play Audio" is clicked and the run takes the Play branch: the flags are
\* set and play_audio starts (audio_files = [], i = start_page).
ClickPlay ==
    /\ run = "idle"
    /\ shown = "play"
    /\ ~ShowsStopButton(is_playing)
    /\ is_playing' = TRUE
    /\ current_page' = SliderToRange(slider[1], slider[2])[1]
    /\ start_page' = SliderToRange(slider[1], slider[2])[1]
    /\ end_page' = SliderToRange(slider[1], slider[2])[2]
    /\ audio_files' = <<>>
    /\ synth_ok' = {}
    /\ idx' = start_page'
    /\ IF start_page' <= end_page'
       THEN run' = "play_audio" /\ gen_pc' = [gen_pc EXCEPT ![1] = "save"]
       ELSE run' = "autoplay" /\ UNCHANGED gen_pc
    /\ NoPlayer
    /\ UNCHANGED <<total_pages, slider, shown, gen_buf, gen_synth, gen_ret, temp_file,
                   textVars>>

\* "Play Audio" is still on the page after a Play run; clicked again, the
\* run takes the Stop branch, where no button reports a click.
ClickPlayWhilePlaying ==
    /\ run = "idle"
    /\ shown = "play"
    /\ ShowsStopButton(is_playing)
    /\ shown' = "stop"
    /\ NoPlayer
    /\ UNCHANGED <<total_pages, slider, is_playing, current_page, audio_files, runVars,
                   genVars, textVars>>

\* "Stop Audio" is clicked: the flags are reset and the script reruns.
ClickStop ==
    /\ run = "idle"
    /\ shown = "stop"
    /\ is_playing
    /\ is_playing' = FALSE
    /\ current_page' = SliderToRange(slider[1], slider[2])[1]
    /\ shown' = ButtonFor(total_pages, is_playing')
    /\ NoPlayer
    /\ UNCHANGED <<total_pages, slider, audio_files, runVars, genVars, textVars>>

\* ---------------------------------------------------------- generate_audio
\* The text caller c is synthesizing.
GenPage(c) == IF c = 1 THEN idx ELSE 0

\* Another session calls generate_audio on its own text.
OtherSessionCalls ==
    /\ gen_pc[2] \in {"idle", "returned"}
    /\ gen_pc' = [gen_pc EXCEPT ![2] = "save"]
    /\ gen_synth' = [gen_synth EXCEPT ![2] = FALSE]
    /\ gen_buf' = [gen_buf EXCEPT ![2] = None]
    /\ gen_ret' = [gen_ret EXCEPT ![2] = None]
    /\ UNCHANGED <<temp_file, widgetVars, runVars, playerVars, textVars>>

\* gTTS(...) and tts.save("temp_audio.mp3") succeed: the file is written.
GenSave(c) ==
    /\ gen_pc[c] = "save"
    /\ temp_file' = Audio(c, GenPage(c))
    /\ gen_synth' = [gen_synth EXCEPT ![c] = TRUE]
    /\ synth_ok' = IF c = 1 THEN synth_ok \cup {idx} ELSE synth_ok
    /\ gen_pc' = [gen_pc EXCEPT ![c] = "open"]
    /\ UNCHANGED <<gen_buf, gen_ret, widgetVars, run, start_page, end_page, idx,
                   playerVars, textVars>>

\* gTTS raises (no text to speak, the service fails): except, return None.
GenSaveFails(c) ==
    /\ gen_pc[c] = "save"
    /\ gen_synth' = [gen_synth EXCEPT ![c] = FALSE]
    /\ gen_ret' = [gen_ret EXCEPT ![c] = None]
    /\ gen_pc' = [gen_pc EXCEPT ![c] = "returned"]
    /\ UNCHANGED <<gen_buf, temp_file, widgetVars, runVars, playerVars, textVars>>

\* with open(audio_file_path, 'rb') as f: audio_file.write(f.read())
GenOpen(c) ==
    /\ gen_pc[c] = "open"
    /\ temp_file # NoFile
    /\ gen_buf' = [gen_buf EXCEPT ![c] = temp_file]
    /\ gen_pc' = [gen_pc EXCEPT ![c] = "remove"]
    /\ UNCHANGED <<gen_synth, gen_ret, temp_file, widgetVars, runVars, playerVars,
                   textVars>>

\* open raises FileNotFoundError: except, return None.
GenOpenMissing(c) ==
    /\ gen_pc[c] = "open"
    /\ temp_file = NoFile
    /\ gen_ret' = [gen_ret EXCEPT ![c] = None]
    /\ gen_pc' = [gen_pc EXCEPT ![c] = "returned"]
    /\ UNCHANGED <<gen_buf, gen_synth, temp_file, widgetVars, runVars, playerVars,
                   textVars>>

\* os.remove(audio_file_path); audio_file.seek(0); return audio_file
GenRemove(c) ==
    /\ gen_pc[c] = "remove"
    /\ temp_file # NoFile
    /\ temp_file' = NoFile
    /\ gen_ret' = [gen_ret EXCEPT ![c] = gen_buf[c]]
    /\ gen_pc' = [gen_pc EXCEPT ![c] = "returned"]
    /\ UNCHANGED <<gen_buf, gen_synth, widgetVars, runVars, playerVars, textVars>>

\* os.remove raises FileNotFoundError: except, return None.
GenRemoveMissing(c) ==
    /\ gen_pc[c] = "remove"
    /\ temp_file = NoFile
    /\ gen_ret' = [gen_ret EXCEPT ![c] = None]
    /\ gen_pc' = [gen_pc EXCEPT ![c] = "returned"]
    /\ UNCHANGED <<gen_buf, gen_synth, temp_file, widgetVars, runVars, playerVars,
                   textVars>>

\* ---------------------------------------------------------------- play_audio
\* if audio_file: st.session_state.audio_files.append(audio_file)
AppendAudio(files, ret) == IF ret # None THEN Append(files, ret) ELSE files

\* generate_audio returned to play_audio: append, then the next i or the end
\* of the loop.
PlayAudioNext ==
    /\ run = "play_audio"
    /\ gen_pc[1] = "returned"
    /\ audio_files' = AppendAudio(audio_files, gen_ret[1])
    /\ idx' = idx + 1
    /\ IF idx' <= end_page
       THEN run' = "play_audio" /\ gen_pc' = [gen_pc EXCEPT ![1] = "save"]
       ELSE run' = "autoplay" /\ gen_pc' = [gen_pc EXCEPT ![1] = "idle"]
    /\ gen_buf' = [gen_buf EXCEPT ![1] = None]
    /\ gen_synth' = [gen_synth EXCEPT ![1] = FALSE]
    /\ gen_ret' = [gen_ret EXCEPT ![1] = None]
    /\ UNCHANGED <<total_pages, slider, shown, is_playing, current_page, start_page,
                   end_page, synth_ok, temp_file, playerVars, textVars>>

\* -------------------------------------------------------------- autoplay_audio
\* The comparison off by one.
HasNext_OffByOne(i, n) == i <= n

\* currentIndex < audioFiles.length
HasNext(i, n) == i < n

\* audioFiles[i] of the script (0-based); "undefined" past the end.
SourceAt(files, i) == IF i < Len(files) THEN files[i + 1] ELSE Undefined

\* autoplay_audio(st.session_state.audio_files) ends the run: nothing for an
\* empty list, else the element is rendered and plays audioFiles[0].
AutoplayAudio ==
    /\ run = "autoplay"
    /\ run' = "idle"
    /\ IF audio_files = <<>>
       THEN NoPlayer
       ELSE /\ audioFiles' = audio_files
            /\ currentIndex' = 0
            /\ player' = "playing"
            /\ played' = <<SourceAt(audio_files, 0)>>
    /\ start_page' = 0
    /\ end_page' = 0
    /\ idx' = 0
    /\ synth_ok' = {}
    /\ UNCHANGED <<widgetVars, genVars, textVars>>

\* The "ended" listener: the next source, or the element is removed.
Ended ==
    /\ player = "playing"
    /\ currentIndex' = currentIndex + 1
    /\ IF HasNext(currentIndex', Len(audioFiles))
       THEN /\ played' = Append(played, SourceAt(audioFiles, currentIndex'))
            /\ player' = "playing"
       ELSE /\ played' = played
            /\ player' = "removed"
    /\ UNCHANGED <<audioFiles, widgetVars, runVars, genVars, textVars>>

TextIdle == ExtractIdle /\ UrlIdle /\ PaceIdle

\* ========================================================= specifications
ExtractNext == ExtractPage \/ ExtractPageRaises \/ ExtractReturn
ExtractSpecInit == ExtractInit /\ UrlIdle /\ PaceIdle /\ SessionInit
ExtractSpec == ExtractSpecInit /\ [][ExtractNext]_vars

UrlNext == PasteURL \/ PasteURLNoText
UrlSpecInit == UrlInit /\ ExtractIdle /\ PaceIdle /\ SessionInit
UrlSpec == UrlSpecInit /\ [][UrlNext]_vars

PaceNext == SelectListeningTime
PaceSpecInit == PaceInit /\ ExtractIdle /\ UrlIdle /\ SessionInit
PaceSpec == PaceSpecInit /\ [][PaceNext]_vars

Init == SessionInit /\ TextIdle

Next ==
    \/ LoadDocument
    \/ MoveSlider
    \/ ClickPlay
    \/ ClickPlayWhilePlaying
    \/ ClickStop
    \/ OtherSessionCalls
    \/ \E c \in Callers : GenSave(c)
    \/ \E c \in Callers : GenSaveFails(c)
    \/ \E c \in Callers : GenOpen(c)
    \/ \E c \in Callers : GenOpenMissing(c)
    \/ \E c \in Callers : GenRemove(c)
    \/ \E c \in Callers : GenRemoveMissing(c)
    \/ PlayAudioNext
    \/ AutoplayAudio
    \/ Ended

Spec == Init /\ [][Next]_vars

\* Every segment's playback eventually ends.
FairSpec == Spec /\ WF_vars(Ended)

\* ================================================================= claims

\* C1: whenever play_audio runs, its range satisfies
\* 0 <= start_page <= end_page <= total_pages - 1, and the index i it reads
\* pages[i] at lies in start_page..end_page, hence in 0..total_pages - 1.
C1_RangeWithinDocument ==
    run # "idle" =>
        /\ 0 <= start_page
        /\ start_page <= end_page
        /\ end_page <= total_pages - 1
        /\ (run = "play_audio" => idx \in start_page..end_page)

\* play_audio reads the last page of a document of several pages, after a
\* range selection that does not start at the first page.
C1_Witness ==
    /\ run = "play_audio"
    /\ start_page >= 1
    /\ idx > start_page
    /\ idx = end_page
    /\ end_page = total_pages - 1

\* The lines whose trimmed length is > 5, in their order.
FilterLines_Trimmed(ls) == SelectSeq(ls, LAMBDA l : Len(Strip(l)) > 5)

\* The lines of a page's raw text.
RawLines(r) == SplitStr(RawText(r), <<NL>>, <<>>)

\* C2: the lines kept for a page are exactly the lines of its raw text whose
\* trimmed length is > 5, in their original order.
C2_TrimmedLengthFilter ==
    Len(pdf_pages) >= 1 =>
        lines = FilterLines_Trimmed(RawLines(pdf[Len(pdf_pages)]))

\* A whole-word occurrence of "References", in any letter case, at p.
IsWholeWordReferences(s, p) ==
    /\ p >= 1
    /\ p + 9 <= Len(s)
    /\ \A k \in 1..10 : s[p + k - 1] \in {References[k], REFERENCES[k]}
    /\ (p = 1 \/ ~IsWordChar(s[p - 1]))
    /\ (p + 10 > Len(s) \/ ~IsWordChar(s[p + 10]))

MatchPositions(s) == { p \in 1..Len(s) : IsWholeWordReferences(s, p) }

Min(S) == CHOOSE x \in S : \A y \in S : x <= y

\* C3: the cleaned text of a page is the joined text before the first
\* whole-word "References" (any case), trimmed, and holds no such word; with
\* no such word it is the whole joined text, trimmed.
C3_CutAtReferences ==
    Len(pdf_pages) >= 1 =>
        LET out == pdf_pages[Len(pdf_pages)]
            M == MatchPositions(joined)
        IN  IF M = {}
            THEN out = Strip(joined)
            ELSE /\ out = Strip(SubSeq(joined, 1, Min(M) - 1))
                 /\ Len(out) <= Min(M) - 1
                 /\ MatchPositions(out) = {}

\* A page whose joined text has text, then "REFERENCES", then more text.
C3_Witness ==
    /\ Len(pdf_pages) >= 1
    /\ pdf_pages[Len(pdf_pages)] # <<>>
    /\ \E m \in MatchPositions(joined) :
          /\ m > 1
          /\ joined[m + 1] = "E"
          /\ m + 10 < Len(joined)

\* C4: extraction always returns a document with one segment per source
\* page, the segment of a page whose raw text is missing, malformed or not a
\* string being the empty string.
C4_LocalRecovery ==
    extract_result # "running" =>
        /\ extract_result = "returned"
        /\ Len(pdf_pages) = Len(pdf)
        /\ \A i \in 1..Len(pdf) : pdf[i].kind # "text" => pdf_pages[i] = <<>>

\* C5: the estimated segment count is floor(wpm * minutes / mean words per
\* segment) clamped to 0..len(segments), and a longer duration never gives a
\* smaller count.
C5_MonotoneInDuration ==
    LET n == Len(segments)
        total == Sum(segments)
        wpm == AVERAGE_WORDS_PER_MINUTE
        Est(m) == EstimateSegmentCount(segments, m, wpm)
    IN  /\ estimate = Est(ListeningHalves(listening_time))
        /\ \A m \in 1..MaxHalves :
              /\ Est(m) \in 0..n
              /\ (total > 0 /\ Est(m) < n) =>
                    /\ Est(m) * 2 * total <= wpm * m * n
                    /\ wpm * m * n < (Est(m) + 1) * 2 * total
              /\ (total > 0 /\ Est(m) = n) => n * 2 * total <= wpm * m * n
        /\ \A m1, m2 \in 1..MaxHalves : m1 <= m2 => Est(m1) <= Est(m2)

\* A document of which the chosen duration covers a part, and a longer
\* duration more.
C5_Witness ==
    /\ estimate > 0
    /\ estimate < Len(segments)
    /\ listening_time # "1 hour"
    /\ \E m \in 1..MaxHalves :
          EstimateSegmentCount(segments, m, AVERAGE_WORDS_PER_MINUTE) > estimate

\* The number of paragraph blocks of a text: maximal runs of non-blank lines.
RECURSIVE BlockCount(_, _)
BlockCount(ls, inBlock) ==
    IF ls = <<>> THEN 0
    ELSE IF Strip(Head(ls)) = <<>> THEN BlockCount(Tail(ls), FALSE)
    ELSE (IF inBlock THEN 0 ELSE 1) + BlockCount(Tail(ls), TRUE)

ParagraphBlocks(text) == BlockCount(SplitStr(text, <<NL>>, <<>>), FALSE)

\* C6: a web page with k >= 1 paragraph blocks yields k segments.
C6_SegmentPerParagraph ==
    url_state = "shown" => Len(url_pages) = ParagraphBlocks(web.text)

\* The sources played so far are the first ones of the list, in its order.
PlayerSafe ==
    /\ currentIndex <= Len(audioFiles)
    /\ player = "playing" =>
          /\ currentIndex < Len(audioFiles)
          /\ played = SubSeq(audioFiles, 1, currentIndex + 1)
    /\ player = "removed" =>
          /\ currentIndex = Len(audioFiles)
          /\ played = audioFiles

\* The element moves on by one source at a time, and plays nothing once it
\* is removed.
PlayerStep ==
    /\ (player = "playing" /\ player' # "none" /\ played' # played) =>
          /\ currentIndex' = currentIndex + 1
          /\ currentIndex' < Len(audioFiles)
          /\ played' = Append(played, audioFiles[currentIndex' + 1])
    /\ (player = "removed" /\ player' # "none") =>
          /\ player' = "removed"
          /\ played' = played

\* C7: the player plays the list in order, each source once, one at a time;
\* currentIndex never exceeds the list's length; and if every playback ends,
\* a playing element is eventually removed.
C7_SequentialPlayback ==
    /\ []PlayerSafe
    /\ [][PlayerStep]_vars
    /\ (player = "playing" ~> player # "playing")

\* A list of several sources has been played to its end.
C7_Witness ==
    /\ player = "removed"
    /\ Len(played) >= 2
    /\ played = audioFiles

\* Audio generation starts in this step.
PlayStarts == run = "idle" /\ run' # "idle"

\* "Stop Audio" is clicked in this step.
StopClicked == run = "idle" /\ shown = "stop" /\ shown' = "play"

\* C8: generation starts only with is_playing false and sets it; only a Stop
\* click resets it; after either, current_page is the selected start page.
C8_PlayStopAlternate ==
    [][ /\ PlayStarts =>
              /\ ~is_playing
              /\ is_playing'
              /\ current_page' = slider[1] - 1
        /\ (is_playing' # is_playing) => (PlayStarts \/ StopClicked)
        /\ StopClicked =>
              /\ is_playing
              /\ ~is_playing'
              /\ current_page' = slider[1] - 1
        /\ (is_playing /\ is_playing') => ~PlayStarts
      ]_vars

\* Playback has ended, or there was nothing to play, and the session still
\* counts as playing, on a page other than the first.
C8_Witness ==
    /\ is_playing
    /\ run = "idle"
    /\ player \in {"removed", "none"}
    /\ shown = "play"
    /\ current_page >= 1

\* The audio of the pages lo..hi whose synthesis succeeded, in page order.
RECURSIVE SynthesizedAudio(_, _, _)
SynthesizedAudio(lo, hi, ok) ==
    IF lo > hi THEN <<>>
    ELSE (IF lo \in ok THEN <<Audio(1, lo)>> ELSE <<>>)
         \o SynthesizedAudio(lo + 1, hi, ok)

\* C9: when play_audio is done, audio_files holds, in page order, exactly the
\* audio of the pages of the range whose synthesis succeeded.
C9_AudioOfThisCall ==
    run = "autoplay" =>
        audio_files = SynthesizedAudio(start_page, end_page, synth_ok)

\* C10: a call of generate_audio returns the audio of its own text, or None
\* after its own synthesis failed.
C10_IsolatedCalls ==
    \A c \in Callers :
        gen_pc[c] = "returned" =>
            \/ gen_ret[c] = Audio(c, GenPage(c))
            \/ gen_ret[c] = None /\ ~gen_synth[c]

=============================================================================
